---- MODULE Spec2Model ----
(***************************************************************************)
(* State-machine model of clang/lib/Tooling/DependencyScanning/            *)
(* DependencyScanningTool.cpp: the scanning facade (DependencyScanningTool)*)
(* and the consumers it drives (MakeDependencyPrinterConsumer,             *)
(* MakeDependencyTree, IncludeTreePPConsumer, FullDependencyConsumer).     *)
(* The front end (DependencyScanningWorker, Preprocessor, FileManager),    *)
(* the object store and the tracking filesystem are the environment:       *)
(* their calls are nondeterministic choices over what they can return.     *)
(***************************************************************************)
EXTENDS Integers, Sequences, FiniteSets, TLC

(***************************************************************************)
(* Bounds of the model.                                                    *)
(***************************************************************************)
\* deepest #include nesting the front end produces (main file = depth 1)
MaxDepth == 3
\* most preprocessing events (enter / exit / probe) of one run
MaxEvents == 5

(***************************************************************************)
(* Optional<T>: <<>> is None, <<v>> is a present value.                    *)
(***************************************************************************)
None == << >>

Some(v) == << v >>

hasValue(o) == o # None

(***************************************************************************)
(* Paths are sequences of components; an absolute path starts with "/".    *)
(***************************************************************************)
CWD == << "/", "cwd" >>

IsAbsolute(p) == Len(p) > 0 /\ p[1] = "/"

\* FileManager::makeAbsolutePath: prefix the working directory to a relative path
makeAbsolutePath(p) == IF IsAbsolute(p) THEN p ELSE CWD \o p

\* llvm::sys::path::remove_dots(Path, /*remove_dot_dot=*/true)
RECURSIVE remove_dots_from(_, _)
remove_dots_from(acc, rest) ==
    IF rest = << >> THEN acc
    ELSE LET c == Head(rest)
             t == Tail(rest)
         IN  IF c = "." THEN remove_dots_from(acc, t)
             ELSE IF c = ".."
                  THEN IF Len(acc) > 0 /\ acc[Len(acc)] \notin {"..", "/"}
                       THEN remove_dots_from(SubSeq(acc, 1, Len(acc) - 1), t)
                       ELSE IF Len(acc) > 0 /\ acc[Len(acc)] = "/"
                            THEN remove_dots_from(acc, t)
                            ELSE remove_dots_from(Append(acc, c), t)
                  ELSE remove_dots_from(Append(acc, c), t)

remove_dots(p) == remove_dots_from(<< >>, p)

(***************************************************************************)
(* The files the FileManager knows (FileEntry objects).  FileManager keeps *)
(* one FileEntry per file (inode), so two entries never share a name or a  *)
(* real path, and no entry's name is another entry's real path.            *)
(***************************************************************************)
FileEntries == { "main", "a", "b", "p", "q", "ign", "sdk" }

getUID(fe) ==
    CASE fe = "main" -> 0
      [] fe = "a"    -> 1
      [] fe = "b"    -> 2
      [] fe = "q"    -> 3
      [] fe = "p"    -> 4
      [] fe = "ign"  -> 5
      [] fe = "sdk"  -> 6

getName(fe) ==
    CASE fe = "main" -> << "main.c" >>
      [] fe = "a"    -> << ".", "inc", "..", "a.h" >>
      [] fe = "b"    -> << "link.h" >>
      [] fe = "q"    -> << "q.h" >>
      [] fe = "p"    -> << "/", "sdk", "usr", "p.h" >>
      [] fe = "ign"  -> << "ign.txt" >>
      [] fe = "sdk"  -> << "/", "sdk", "SDKSettings.json" >>

\* FileEntry::tryGetRealPathName: empty when the real path is not known
tryGetRealPathName(fe) ==
    CASE fe = "main" -> << "/", "cwd", "main.c" >>
      [] fe = "a"    -> << "/", "cwd", "a.h" >>
      [] fe = "b"    -> << "/", "cwd", "real.h" >>
      [] fe = "q"    -> << "/", "cwd", "q.h" >>
      [] fe = "p"    -> << >>
      [] fe = "ign"  -> << "/", "cwd", "lists", "ign.txt" >>
      [] fe = "sdk"  -> << "/", "sdk", "SDKSettings.json" >>

getSize(fe) ==
    CASE fe = "main" -> 10
      [] fe = "a"    -> 11
      [] fe = "b"    -> 12
      [] fe = "q"    -> 11
      [] fe = "p"    -> 14
      [] fe = "ign"  -> 15
      [] fe = "sdk"  -> 16

\* the bytes of a file; "a" and "q" hold the same bytes
FileBytes(fe) == IF fe = "q" THEN "bytes_a" ELSE "bytes_" \o fe

\* ObjectStore: a ref is the stored content itself (equal content, equal ref)
ContentRefOf(bytes) == [blob |-> bytes]

\* FileManager::getFile(path): the FileEntry of that name, if any
getFile(path) ==
    LET m == { fe \in FileEntries : getName(fe) = path }
    IN  IF m = {} THEN None ELSE Some(CHOOSE fe \in m : TRUE)

(***************************************************************************)
(* FileIDs: the predefines buffer and one per file the preprocessor enters.*)
(***************************************************************************)
PredefinesFID == "predefines"

MainFID == "main"

HeaderFIDs == { "a", "b" }

\* SrcMgr::FileInfo::getFileCharacteristic
getFileCharacteristic(fid) == IF fid = "b" THEN "C_System" ELSE "C_User"

\* FI.getContentCache().OrigEntry
OrigEntry(fid) == fid

\* byte offsets at which an #include can sit in its includer
Offsets == { 40, 120 }

(***************************************************************************)
(* IncludeTreePPConsumer.  Its members are the fields of a record c:       *)
(* PCHRef, SeenIncludeFiles, IncludedFiles, PredefinesBufferRef,           *)
(* IncludeStack, ObjectForFile, ErrorToReport.  ObjectForFile is the       *)
(* DenseMap as a total function, None for a key that holds no ref.         *)
(* Calls into the object store and the FileManager can fail; the fault     *)
(* argument of an operation says which call of it fails, if any.           *)
(***************************************************************************)
Faults == { "none", "read", "store", "createAlias", "createFile", "tree" }

\* llvm::Error values
Err(kind, at) == [kind |-> kind, at |-> at]

\* cas::IncludeFile::create(DB, Filename, Contents): a content-addressed node
IncludeFile_create(Filename, Contents) ==
    [Filename |-> Filename, Contents |-> Contents]

\* cas::IncludeTree::create(DB, Characteristic, File, Includes, Checks)
IncludeTree_create(FileCharacteristic, File, Includes, HasIncludeChecks) ==
    [FileCharacteristic |-> FileCharacteristic, File |-> File,
     Includes |-> Includes, HasIncludeChecks |-> HasIncludeChecks]

\* cas::IncludeFileList::create(DB, Files)
IncludeFileList_create(Files) == [Files |-> Files]

\* cas::IncludeTreeRoot::create(DB, MainTree, FileList, PCHRef)
IncludeTreeRoot_create(MainTree, FileList, PCH) ==
    [MainTree |-> MainTree, FileList |-> FileList, PCHRef |-> PCH]

\* the state after construction, IncludeTreePPConsumer(DB)
IncludeTreePPConsumer_new ==
    [PCHRef |-> None, SeenIncludeFiles |-> << >>, IncludedFiles |-> << >>,
     PredefinesBufferRef |-> None, IncludeStack |-> << >>,
     ObjectForFile |-> [fe \in FileEntries |-> None], ErrorToReport |-> None,
     DB |-> << >>]

\* what a create or store call leaves in the object store DB: the calls the
\* consumer made, in order, each with the object it made
stored(c, kind, obj) == [c EXCEPT !.DB = Append(@, [kind |-> kind, obj |-> obj])]

hasErrorOccurred(c) == hasValue(c.ErrorToReport)

\* check(Expected<T>): record the error of a failed result
check(c, r) == IF r.ok THEN c ELSE [c EXCEPT !.ErrorToReport = Some(r.err)]

\* a failed / successful Expected<ObjectRef>, with the consumer state it leaves
Failed(c, e) == [ok |-> FALSE, ref |-> None, err |-> e, c |-> c]

Value(c, ref) == [ok |-> TRUE, ref |-> Some(ref), err |-> Err("success", << >>), c |-> c]

\* the addFile lambda of addToFileList: create the FileNode, append the entry
addToFileList_addFile(c, FE, Filename, Contents, fails) ==
    IF fails THEN Failed(c, Err("create", Filename))
    ELSE LET FileNode == IncludeFile_create(Filename, Contents)
         IN  Value([stored(c, "IncludeFile", FileNode) EXCEPT !.IncludedFiles =
                        Append(@, [File |-> FileNode, Size |-> getSize(FE)])],
                   FileNode)

\* addToFileList without the entry under the real path (C9 tells it apart)
addToFileList_nameOnly(c, FE, fault) ==
    LET Filename == getName(FE)
        Contents == ContentRefOf(FileBytes(FE))
    IN  IF fault = "read" THEN Failed(c, Err("read", Filename))
        ELSE addToFileList_addFile(c, FE, Filename, Contents, fault = "createFile")

addToFileList(c, FE, fault) ==
    LET Filename == getName(FE)
        Contents == ContentRefOf(FileBytes(FE))
        OtherPath == tryGetRealPathName(FE)
        AbsPath == remove_dots(makeAbsolutePath(Filename))
    IN  IF fault = "read" THEN Failed(c, Err("read", Filename))
        ELSE IF OtherPath # << >> /\ OtherPath # AbsPath
             THEN LET alias == addToFileList_addFile(c, FE, OtherPath, Contents,
                                                     fault = "createAlias")
                  IN  IF ~alias.ok THEN alias
                      ELSE addToFileList_addFile(alias.c, FE, Filename, Contents,
                                                 fault = "createFile")
             ELSE addToFileList_addFile(c, FE, Filename, Contents,
                                        fault = "createFile")

\* llvm::BitVector as a sequence of bits; bit i is element i + 1
BitVector_resize(bv, n) ==
    IF Len(bv) >= n THEN SubSeq(bv, 1, n)
    ELSE bv \o [i \in 1..(n - Len(bv)) |-> FALSE]

BitVector_set(bv, i) == [bv EXCEPT ![i + 1] = TRUE]

getObjectForFileNonCached(c, FE, fault) ==
    LET sized == IF getUID(FE) >= Len(c.SeenIncludeFiles)
                 THEN BitVector_resize(c.SeenIncludeFiles, getUID(FE) + 1)
                 ELSE c.SeenIncludeFiles
        seen == BitVector_set(sized, getUID(FE))
    IN  addToFileList([c EXCEPT !.SeenIncludeFiles = seen], FE, fault)

\* a non-file buffer, like the predefines
getObjectForBuffer(c, fid, fault) ==
    IF fault = "store" THEN Failed(c, Err("store", << fid >>))
    ELSE LET Ref == ContentRefOf("bytes_" \o fid)
             c1 == stored(c, "blob", Ref)
         IN  IF fault = "createFile" THEN Failed(c1, Err("create", << fid >>))
             ELSE LET FileNode == IncludeFile_create(<< "<built-in>" >>, Ref)
                  IN  Value(stored(c1, "IncludeFile", FileNode), FileNode)

\* getObjectForFile that does not keep the ref of the predefines buffer
\* (C19 tells it apart)
getObjectForFile_unkept(c, FID, fault) ==
    IF FID = PredefinesFID
    THEN LET Ref == getObjectForBuffer(c, FID, fault)
         IN  IF ~Ref.ok THEN Ref ELSE Value(Ref.c, Ref.ref[1])
    ELSE LET FE == OrigEntry(FID)
         IN  IF ~hasValue(c.ObjectForFile[FE])
             THEN LET Ref == getObjectForFileNonCached(c, FE, fault)
                  IN  IF ~Ref.ok THEN Ref
                      ELSE Value([Ref.c EXCEPT !.ObjectForFile[FE] = Ref.ref],
                                 Ref.ref[1])
             ELSE Value(c, c.ObjectForFile[FE][1])

getObjectForFile(c, FID, fault) ==
    IF FID = PredefinesFID
    THEN IF ~hasValue(c.PredefinesBufferRef)
         THEN LET Ref == getObjectForBuffer(c, FID, fault)
              IN  IF ~Ref.ok THEN Ref
                  ELSE Value([Ref.c EXCEPT !.PredefinesBufferRef = Ref.ref],
                             Ref.ref[1])
         ELSE Value(c, c.PredefinesBufferRef[1])
    ELSE LET FE == OrigEntry(FID)
         IN  IF ~hasValue(c.ObjectForFile[FE])
             THEN LET Ref == getObjectForFileNonCached(c, FE, fault)
                  IN  IF ~Ref.ok THEN Ref
                      ELSE Value([Ref.c EXCEPT !.ObjectForFile[FE] = Ref.ref],
                                 Ref.ref[1])
             ELSE Value(c, c.ObjectForFile[FE][1])

getCASTreeForFileIncludes(PPState, fault) ==
    IF fault = "tree"
    THEN [ok |-> FALSE, err |-> Err("tree", PPState.File.Filename)]
    ELSE [ok |-> TRUE, err |-> Err("success", << >>),
          tree |-> IncludeTree_create(PPState.FileCharacteristic, PPState.File,
                                      PPState.Includes, PPState.HasIncludeChecks)]

\* SmallVector::back() / pop_back_val()
back(s) == s[Len(s)]

pop_back(s) == SubSeq(s, 1, Len(s) - 1)

\* enteredInclude that pushes no frame for a file already resolved (C14
\* tells it apart)
enteredInclude_onceperfile(c, FID, fault) ==
    IF hasErrorOccurred(c) THEN c
    ELSE LET FileRef == getObjectForFile(c, FID, fault)
         IN  IF ~FileRef.ok THEN check(FileRef.c, FileRef)
             ELSE IF FileRef.c = c /\ FID # MainFID THEN c
             ELSE [FileRef.c EXCEPT !.IncludeStack =
                      Append(@, [FileCharacteristic |-> getFileCharacteristic(FID),
                                 File |-> FileRef.ref[1],
                                 Includes |-> << >>,
                                 HasIncludeChecks |-> << >>])]

enteredInclude(c, FID, fault) ==
    IF hasErrorOccurred(c) THEN c
    ELSE LET FileRef == getObjectForFile(c, FID, fault)
         IN  IF ~FileRef.ok THEN check(FileRef.c, FileRef)
             ELSE [FileRef.c EXCEPT !.IncludeStack =
                      Append(@, [FileCharacteristic |-> getFileCharacteristic(FID),
                                 File |-> FileRef.ref[1],
                                 Includes |-> << >>,
                                 HasIncludeChecks |-> << >>])]

\* exitedInclude making the node of the frame as it was entered, without
\* what was opened inside it since (C15 tells it apart)
exitedInclude_early(c, IncludedBy, Include, offset, fault) ==
    IF hasErrorOccurred(c) THEN c
    ELSE LET IncludeTree ==
                 getCASTreeForFileIncludes([back(c.IncludeStack) EXCEPT
                                               !.Includes = << >>], fault)
             popped == [c EXCEPT !.IncludeStack = pop_back(@)]
         IN  IF ~IncludeTree.ok THEN check(popped, IncludeTree)
             ELSE [stored(popped, "IncludeTree", IncludeTree.tree)
                      EXCEPT !.IncludeStack[Len(popped.IncludeStack)].Includes =
                                 Append(@, << IncludeTree.tree, offset >>)]

\* exitedInclude putting the child first in its parent (C1 tells it apart)
exitedInclude_prepending(c, IncludedBy, Include, offset, fault) ==
    IF hasErrorOccurred(c) THEN c
    ELSE LET IncludeTree == getCASTreeForFileIncludes(back(c.IncludeStack), fault)
             popped == [c EXCEPT !.IncludeStack = pop_back(@)]
         IN  IF ~IncludeTree.ok THEN check(popped, IncludeTree)
             ELSE [stored(popped, "IncludeTree", IncludeTree.tree)
                      EXCEPT !.IncludeStack[Len(popped.IncludeStack)].Includes =
                                 << << IncludeTree.tree, offset >> >> \o @]

exitedInclude(c, IncludedBy, Include, offset, fault) ==
    IF hasErrorOccurred(c) THEN c
    ELSE LET IncludeTree == getCASTreeForFileIncludes(back(c.IncludeStack), fault)
             popped == [c EXCEPT !.IncludeStack = pop_back(@)]
         IN  IF ~IncludeTree.ok THEN check(popped, IncludeTree)
             ELSE [stored(popped, "IncludeTree", IncludeTree.tree)
                      EXCEPT !.IncludeStack[Len(popped.IncludeStack)].Includes =
                                 Append(@, << IncludeTree.tree, offset >>)]

\* handleHasIncludeCheck giving the bit to the main file's frame (C16 tells
\* it apart)
handleHasIncludeCheck_bottom(c, Result) ==
    IF hasErrorOccurred(c) THEN c
    ELSE [c EXCEPT !.IncludeStack[1].HasIncludeChecks = Append(@, Result)]

handleHasIncludeCheck(c, Result) ==
    IF hasErrorOccurred(c) THEN c
    ELSE [c EXCEPT !.IncludeStack[Len(c.IncludeStack)].HasIncludeChecks =
              Append(@, Result)]

(***************************************************************************)
(* finalize(CompilerInstance &CI).  CI carries LangOpts.NoSanitizeFiles,   *)
(* HeaderSearchOpts.Sysroot and PreprocessorOpts.ImplicitPCHInclude;       *)
(* Enumeration is the order in which Preprocessor::getIncludedFiles()      *)
(* hands out its files; unreadable holds the files (and "pch") whose       *)
(* content FileManager::getObjectRefForFileContent cannot read.            *)
(***************************************************************************)
\* the addFile lambda of finalize
finalize_addFile(c, FilePath, IgnoreFileError, unreadable) ==
    LET FE == getFile(FilePath)
    IN  IF ~hasValue(FE)
        THEN IF IgnoreFileError THEN [ok |-> TRUE, c |-> c]
             ELSE [ok |-> FALSE,
                   c |-> [c EXCEPT !.ErrorToReport = Some(Err("nofile", FilePath))]]
        ELSE LET Ref == addToFileList(c, FE[1],
                            IF FE[1] \in unreadable THEN "read" ELSE "none")
             IN  IF ~Ref.ok
                 THEN [ok |-> FALSE,
                       c |-> [Ref.c EXCEPT !.ErrorToReport = Some(Ref.err)]]
                 ELSE [ok |-> TRUE, c |-> Ref.c]

\* for (StringRef FilePath : NoSanitizeFiles) if (!addFile(FilePath)) return;
RECURSIVE finalize_NoSanitizeFiles(_, _, _)
finalize_NoSanitizeFiles(c, files, unreadable) ==
    IF files = << >> THEN [ok |-> TRUE, c |-> c]
    ELSE LET r == finalize_addFile(c, Head(files), FALSE, unreadable)
         IN  IF ~r.ok THEN r
             ELSE finalize_NoSanitizeFiles(r.c, Tail(files), unreadable)

\* a sweep that takes every file of the enumeration (C17 tells it apart)
NotSeenIncludes_all(c, Enumeration) == Enumeration

\* the files of the enumeration with no seen bit
NotSeenIncludes(c, Enumeration) ==
    SelectSeq(Enumeration,
              LAMBDA FE : \/ getUID(FE) >= Len(c.SeenIncludeFiles)
                          \/ ~c.SeenIncludeFiles[getUID(FE) + 1])

\* the files left in the order of the enumeration (C7 tells it apart)
sortByUID_unsorted(s) == s

\* llvm::sort(NotSeenIncludes, LHS->getUID() < RHS->getUID())
RECURSIVE sortByUID(_)
sortByUID(s) ==
    IF s = << >> THEN << >>
    ELSE LET least == CHOOSE i \in 1..Len(s) :
                          \A j \in 1..Len(s) : getUID(s[i]) <= getUID(s[j])
         IN  << s[least] >> \o
             sortByUID(SubSeq(s, 1, least - 1) \o SubSeq(s, least + 1, Len(s)))

\* for (const FileEntry *FE : NotSeenIncludes) addToFileList(FM, FE), stop at a failure
RECURSIVE finalize_NotSeen(_, _, _)
finalize_NotSeen(c, files, unreadable) ==
    IF files = << >> THEN [ok |-> TRUE, c |-> c]
    ELSE LET FileNode == addToFileList(c, Head(files),
                             IF Head(files) \in unreadable THEN "read" ELSE "none")
         IN  IF ~FileNode.ok
             THEN [ok |-> FALSE,
                   c |-> [FileNode.c EXCEPT !.ErrorToReport = Some(FileNode.err)]]
             ELSE finalize_NotSeen(FileNode.c, Tail(files), unreadable)

\* the part of finalize after the no-sanitize files
finalize_rest(c0, CI, Enumeration, unreadable) ==
    LET c1 == IF CI.Sysroot # << >>
              THEN finalize_addFile(c0, CI.Sysroot \o << "SDKSettings.json" >>,
                                    TRUE, unreadable).c
              ELSE c0
    IN  IF CI.ImplicitPCHInclude = << >> THEN c1
        ELSE LET sorted == sortByUID(NotSeenIncludes(c1, Enumeration))
                 swept == finalize_NotSeen(c1, sorted, unreadable)
             IN  IF ~swept.ok THEN swept.c
                 ELSE IF "pch" \in unreadable
                      THEN [swept.c EXCEPT !.ErrorToReport =
                               Some(Err("read", CI.ImplicitPCHInclude))]
                      ELSE [swept.c EXCEPT !.PCHRef =
                               Some(ContentRefOf("bytes_pch"))]

finalize(c, CI, Enumeration, unreadable) ==
    LET ns == finalize_NoSanitizeFiles(c, CI.NoSanitizeFiles, unreadable)
    IN  IF ~ns.ok THEN ns.c
        ELSE finalize_rest(ns.c, CI, Enumeration, unreadable)

\* Expected<IncludeTreeRoot> IncludeTreePPConsumer::getIncludeTree().  The
\* result is a failure or a root.  When the assertion on the stack size is
\* false, a build with assertions aborts; a build without them goes on with
\* the frame on top, and reads no frame at all (undefined) on an empty stack.
IncludeTreePPConsumer_getIncludeTree(c, fault, assertions) ==
    IF hasValue(c.ErrorToReport)
    THEN [tag |-> "failure", err |-> c.ErrorToReport[1], c |-> c]
    ELSE IF Len(c.IncludeStack) # 1 /\ assertions
    THEN [tag |-> "abort", err |-> Err("assert", << "IncludeStack.size() == 1" >>),
          c |-> c]
    ELSE IF Len(c.IncludeStack) = 0
    THEN [tag |-> "undefined", err |-> Err("undefined", << "pop_back_val" >>),
          c |-> c]
    ELSE LET MainIncludeTree ==
                 getCASTreeForFileIncludes(back(c.IncludeStack),
                                           IF fault = "tree" THEN "tree" ELSE "none")
             popped == [c EXCEPT !.IncludeStack = pop_back(@)]
         IN  IF ~MainIncludeTree.ok
             THEN [tag |-> "failure", err |-> MainIncludeTree.err, c |-> popped]
             ELSE LET c1 == stored(popped, "IncludeTree", MainIncludeTree.tree)
                      FileList == IncludeFileList_create(c.IncludedFiles)
                      c2 == stored(c1, "IncludeFileList", FileList)
                      Root == IncludeTreeRoot_create(MainIncludeTree.tree, FileList,
                                                     c.PCHRef)
                  IN  IF fault = "store"
                      THEN [tag |-> "failure", err |-> Err("filelist", << >>), c |-> c1]
                      ELSE IF fault = "createFile"
                      THEN [tag |-> "failure", err |-> Err("root", << >>), c |-> c2]
                      ELSE [tag |-> "root", err |-> Err("success", << >>),
                            c |-> stored(c2, "IncludeTreeRoot", Root), root |-> Root]

(***************************************************************************)
(* The compiler instances finalize can be handed, and the ways the         *)
(* preprocessor can enumerate its included files.                          *)
(***************************************************************************)
NoPCH == << >>

PCHFiles == { "p", "q", "b" }

CI_new(ns, sr, pch) ==
    [NoSanitizeFiles |-> ns, Sysroot |-> sr, ImplicitPCHInclude |-> pch]

CompilerInstances ==
    { CI_new(<< >>, << >>, NoPCH),
      CI_new(<< << "ign.txt" >> >>, << "/", "sdk" >>, NoPCH),
      CI_new(<< << "link.h" >>, << "ign.txt" >>, << "ign.txt" >> >>, << >>, NoPCH),
      CI_new(<< << "missing.txt" >> >>, << "/", "sdk" >>, << "pre.pch" >>),
      CI_new(<< >>, << "/", "nosdk" >>, << "pre.pch" >>),
      CI_new(<< << "ign.txt" >> >>, << "/", "sdk" >>, << "pre.pch" >>) }

\* the files finalize may find unreadable, among those the instance makes it read
Unreadable(ci) ==
    { {} } \cup
    { { "ign" } : x \in { y \in 1..Len(ci.NoSanitizeFiles) :
                            ci.NoSanitizeFiles[y] = << "ign.txt" >> } } \cup
    { { "sdk" } : x \in { y \in { 1 } : ci.Sysroot = << "/", "sdk" >> } } \cup
    { u \in { { "q" }, { "pch" } } : ci.ImplicitPCHInclude # NoPCH }

Permutations_of(S) ==
    { s \in [1..Cardinality(S) -> S] : \A x \in S : \E i \in DOMAIN s : s[i] = x }

\* a set in ascending UID order
RECURSIVE byUID(_)
byUID(S) ==
    IF S = {} THEN << >>
    ELSE LET m == CHOOSE x \in S : \A y \in S : getUID(x) <= getUID(y)
         IN  << m >> \o byUID(S \ { m })

\* Preprocessor::getIncludedFiles() is a set of pointers: the entered files
\* and the files of the precompiled header, the latter in any order
Enumerations(entered) ==
    { byUID(entered \ PCHFiles) \o e : e \in Permutations_of(PCHFiles) }

\* one fixed enumeration, the yardstick for the others
ReferenceEnumeration(entered) == byUID(entered \cup PCHFiles)

(***************************************************************************)
(* makeTUCommandLineWithoutPaths.  Arguments are strings.                  *)
(***************************************************************************)
\* StringRef::startswith
startswith(Arg, Prefix) ==
    Len(Arg) >= Len(Prefix) /\ SubSeq(Arg, 1, Len(Prefix)) = Prefix

\* what StringRef::consume_front leaves of Arg once it has dropped Prefix
consume_front(Arg, Prefix) == SubSeq(Arg, Len(Prefix) + 1, Len(Arg))

\* a filter that takes every one of the five as a prefix (C4 tells it apart)
erase_if_unused_prefixes(Arg) ==
    \/ startswith(Arg, "-fmodules-cache-path=")
    \/ startswith(Arg, "-fmodules-prune-interval=")
    \/ startswith(Arg, "-fmodules-prune-after=")
    \/ startswith(Arg, "-fmodules-validate-once-per-build-session")
    \/ startswith(Arg, "-fbuild-session-file=")

\* the predicate of llvm::erase_if: arguments unused in explicit compiles
erase_if_unused(Arg) ==
    IF startswith(Arg, "-fmodules-")
    THEN LET Rest == consume_front(Arg, "-fmodules-")
         IN  \/ startswith(Rest, "cache-path=")
             \/ startswith(Rest, "prune-interval=")
             \/ startswith(Rest, "prune-after=")
             \/ Rest = "validate-once-per-build-session"
    ELSE startswith(Arg, "-fbuild-session-file=")

makeTUCommandLineWithoutPaths(OriginalCommandLine) ==
    LET Args == OriginalCommandLine \o
                << "-fno-implicit-modules", "-fno-implicit-module-maps" >>
    IN  SelectSeq(Args, LAMBDA Arg : ~erase_if_unused(Arg))

\* ArrayRef::slice(1): everything after position 0
slice1(v) == SubSeq(v, 2, Len(v))

(***************************************************************************)
(* FullDependencyConsumer.  Its members are the fields of a record d:      *)
(* ContextHash, Dependencies, PrebuiltModuleDeps, ClangModuleDeps (the     *)
(* records in encounter order, one per module identity).  AlreadySeen is   *)
(* the caller's set and LookupModuleOutput the caller's callback.          *)
(***************************************************************************)
ModuleOutputKinds ==
    { "ModuleFile", "DependencyFile", "DependencyTargets",
      "DiagnosticSerializationFile" }

\* the caller's callback: where it keeps a module's output of a kind
LookupModuleOutput(ID, Kind) ==
    "/out/" \o ID.ModuleName \o "-" \o ID.ContextHash \o
    (IF Kind = "ModuleFile" THEN ".pcm" ELSE "." \o Kind)

FullDependencyConsumer_new ==
    [ContextHash |-> "", Dependencies |-> << >>, PrebuiltModuleDeps |-> << >>,
     ClangModuleDeps |-> << >>]

handleFileDependency(d, File) ==
    [d EXCEPT !.Dependencies = Append(@, File)]

handlePrebuiltModuleDependency(d, PMD) ==
    [d EXCEPT !.PrebuiltModuleDeps = Append(@, PMD)]

\* ClangModuleDeps[identity] = MD
handleModuleDependency(d, MD) ==
    IF \E i \in 1..Len(d.ClangModuleDeps) : d.ClangModuleDeps[i].ID = MD.ID
    THEN [d EXCEPT !.ClangModuleDeps =
             [i \in 1..Len(@) |-> IF @[i].ID = MD.ID THEN MD ELSE @[i]]]
    ELSE [d EXCEPT !.ClangModuleDeps = Append(@, MD)]

handleContextHash(d, Hash) == [d EXCEPT !.ContextHash = Hash]

\* an assignment that keeps the first of equal paths only (C18 tells it apart)
RECURSIVE FileDeps_assign_unique(_)
FileDeps_assign_unique(Dependencies_) ==
    IF Dependencies_ = << >> THEN << >>
    ELSE LET init == FileDeps_assign_unique(SubSeq(Dependencies_, 1, Len(Dependencies_) - 1))
             last == Dependencies_[Len(Dependencies_)]
         IN  IF \E i \in 1..Len(init) : init[i] = last THEN init
             ELSE Append(init, last)

\* FD.FileDeps.assign(Dependencies.begin(), Dependencies.end())
FileDeps_assign(Dependencies_) ==
    [i \in 1..Len(Dependencies_) |-> Dependencies_[i]]

\* every stored record taken as directly imported (C6 tells it apart)
ImportedByMainFile_all(d) == d.ClangModuleDeps

\* for (auto &&M : ClangModuleDeps) if (MD.ImportedByMainFile) ...
ImportedByMainFile(d) ==
    SelectSeq(d.ClangModuleDeps, LAMBDA MD : MD.ImportedByMainFile)

\* every stored record taken as new (C5 tells it apart)
NotAlreadySeen_all(d, AlreadySeenSet) == d.ClangModuleDeps

\* for (auto &&M : ClangModuleDeps) if (!AlreadySeen.count(M.first)) ...
NotAlreadySeen(d, AlreadySeenSet) ==
    SelectSeq(d.ClangModuleDeps, LAMBDA MD : MD.ID \notin AlreadySeenSet)

\* what std::move leaves of a vector that is not const: nothing (C20 tells
\* it apart)
moved_from(v) == << >>

\* std::move(member) in a const member function: the member is const, the
\* value is copied and the member keeps it
moved_from_const(v) == v

\* FullDependencyConsumer::getFullDependencies: the result, the consumer it
\* leaves, and the calls it made to the callback, in order
FullDependencyConsumer_getFullDependencies(d, AlreadySeenSet, OriginalCommandLine, CASFileSystemRootID) ==
    LET Direct == ImportedByMainFile(d)
        FD == [ID |-> [ContextHash |-> d.ContextHash],
               CommandLine |->
                   makeTUCommandLineWithoutPaths(slice1(OriginalCommandLine)) \o
                   [i \in 1..Len(d.PrebuiltModuleDeps) |->
                       "-fmodule-file=" \o d.PrebuiltModuleDeps[i].PCMFile] \o
                   [i \in 1..Len(Direct) |->
                       "-fmodule-file=" \o
                       LookupModuleOutput(Direct[i].ID, "ModuleFile")],
               FileDeps |-> FileDeps_assign(d.Dependencies),
               ClangModuleDeps |-> [i \in 1..Len(Direct) |-> Direct[i].ID],
               PrebuiltModuleDeps |-> d.PrebuiltModuleDeps,
               CASFileSystemRootID |-> CASFileSystemRootID]
    IN  [FDR |-> [FullDeps |-> FD,
                  DiscoveredModules |-> NotAlreadySeen(d, AlreadySeenSet)],
         d |-> [d EXCEPT !.PrebuiltModuleDeps = moved_from_const(@),
                         !.ClangModuleDeps = moved_from_const(@)],
         calls |-> [i \in 1..Len(Direct) |->
                       [ID |-> Direct[i].ID, Kind |-> "ModuleFile"]]]

(***************************************************************************)
(* What the worker can report to a dependency consumer, and what a caller  *)
(* can pass to getFullDependencies.                                        *)
(***************************************************************************)
\* most file dependencies, and most prebuilt modules, of one run
MaxFileDeps == 2

MaxPrebuilt == 1

FilePaths == { "a.h", "b.h" }

ModuleIDs ==
    { [ModuleName |-> "M", ContextHash |-> "h1"],
      [ModuleName |-> "N", ContextHash |-> "h1"] }

ModuleDepsRecords ==
    { [ID |-> id, ImportedByMainFile |-> b] : id \in ModuleIDs, b \in BOOLEAN }

PrebuiltModuleDepRecords ==
    { [ModuleName |-> "P", PCMFile |-> "/pre/P.pcm"],
      [ModuleName |-> "Q", PCMFile |-> "/pre/Q.pcm"] }

ContextHashes == { "h1" }

\* the arguments a command line is made of
Arguments ==
    { "-c", "a.c",
      "-fmodules",
      "-fmodules-cache-path=/x",
      "-fmodules-cache-path",
      "-fmodules-prune-interval=7",
      "-fmodules-prune-after=3",
      "-fmodules-validate-once-per-build-session",
      "-fmodules-validate-once-per-build-session=1",
      "-fbuild-session-file=/y",
      "-fbuild-session-timestamp=1",
      "-fno-implicit-modules",
      "-fmodule-file=/pre/R.pcm" }

\* most arguments after the program name
MaxArgs == 2

Seqs(S, n) == UNION { [1..k -> S] : k \in 0..n }

\* every command line of a program name and up to MaxArgs arguments
CommandLines == { << "clang" >> \o a : a \in Seqs(Arguments, MaxArgs) }

\* the command lines the facade is called with
SampleCommandLines ==
    { << "clang", "-fmodules-cache-path=/x", "-fbuild-session-file=/y", "-c", "a.c" >>,
      << "clang", "-fmodules", "-fmodules-validate-once-per-build-session", "a.c" >> }

\* the trees the tracking filesystem can make of the accesses of a run
TreeOfNewAccesses == [paths |-> { "/cwd", "/cwd/a.c" }]

(***************************************************************************)
(* State.                                                                  *)
(***************************************************************************)
VARIABLES
    \* the facade call: the operation called, its position, the outcome of
    \* the worker's preprocessing run, and what the call returned
    op, pc, Result, result,
    \* IncludeTreePPConsumer's members
    PCHRef, SeenIncludeFiles, IncludedFiles, PredefinesBufferRef, IncludeStack,
    ObjectForFile, ErrorToReport, DB,
    \* the front end: the files the preprocessor has open, the files it has
    \* included, whether it has called finalize and with which compiler
    \* instance.  While the consumer has no error recorded, each open file
    \* also carries what happened directly inside it (the includes left, the
    \* probes evaluated); what an event sent to a consumer that holds an
    \* error carried is not written down.  nEvents counts the events sent.
    ppStack, ppIncluded, nEvents, finalized, CI,
    \* what finalize would have left had the included files been enumerated
    \* in the reference order
    refFinal,
    \* the first error the consumer recorded, and the step that recorded it
    firstError,
    \* FullDependencyConsumer's members; Dependencies is also the member of
    \* that name of MakeDependencyPrinterConsumer, which has Opts besides
    ContextHash, Dependencies, PrebuiltModuleDeps, ClangModuleDeps, Opts,
    \* the paths the worker has reported through file-dependency events, and
    \* the kind of the event it sent last
    reported, lastReport,
    \* the arguments of getFullDependencies, Worker.useCAS(), the calls made
    \* to the tracking filesystem and to the caller's callback
    CommandLine, AlreadySeen, useCAS, fsLog, lookupCalls

consumerVars == << PCHRef, SeenIncludeFiles, IncludedFiles, PredefinesBufferRef,
                   IncludeStack, ObjectForFile, ErrorToReport, DB >>

ppVars == << ppStack, ppIncluded, nEvents, finalized, CI, refFinal >>

historyVars == << firstError >>

toolVars == << op, pc, Result, result >>

memberVars == << ContextHash, Dependencies, PrebuiltModuleDeps, ClangModuleDeps, Opts >>

depVars == << memberVars, reported, lastReport >>

callVars == << CommandLine, AlreadySeen, useCAS, fsLog, lookupCalls >>

treeVars == << consumerVars, ppVars, historyVars >>

vars == << toolVars, consumerVars, ppVars, historyVars, depVars, callVars >>

\* the consumer as the record the operations work on
Consumer ==
    [PCHRef |-> PCHRef, SeenIncludeFiles |-> SeenIncludeFiles,
     IncludedFiles |-> IncludedFiles, PredefinesBufferRef |-> PredefinesBufferRef,
     IncludeStack |-> IncludeStack, ObjectForFile |-> ObjectForFile,
     ErrorToReport |-> ErrorToReport, DB |-> DB]

SetConsumer(c, during) ==
    /\ PCHRef' = c.PCHRef
    /\ SeenIncludeFiles' = c.SeenIncludeFiles
    /\ IncludedFiles' = c.IncludedFiles
    /\ PredefinesBufferRef' = c.PredefinesBufferRef
    /\ IncludeStack' = c.IncludeStack
    /\ ObjectForFile' = c.ObjectForFile
    /\ ErrorToReport' = c.ErrorToReport
    /\ DB' = c.DB
    /\ firstError' =
           IF hasValue(firstError) \/ ~hasValue(c.ErrorToReport) THEN firstError
           ELSE Some([err |-> c.ErrorToReport[1],
                      during |-> during])

IncludeTreeOps == { "getIncludeTree", "getIncludeTreeFromCompilerInvocation" }

\* a new IncludeTreePPConsumer, and a front end that has not started
TreeInit ==
    /\ PCHRef = IncludeTreePPConsumer_new.PCHRef
    /\ SeenIncludeFiles = IncludeTreePPConsumer_new.SeenIncludeFiles
    /\ IncludedFiles = IncludeTreePPConsumer_new.IncludedFiles
    /\ PredefinesBufferRef = IncludeTreePPConsumer_new.PredefinesBufferRef
    /\ IncludeStack = IncludeTreePPConsumer_new.IncludeStack
    /\ ObjectForFile = IncludeTreePPConsumer_new.ObjectForFile
    /\ ErrorToReport = IncludeTreePPConsumer_new.ErrorToReport
    /\ DB = IncludeTreePPConsumer_new.DB
    /\ ppStack = << >>
    /\ ppIncluded = {}
    /\ nEvents = 0
    /\ finalized = FALSE
    /\ CI = None
    /\ refFinal = None
    /\ firstError = None

Init ==
    /\ op = "none"
    /\ pc = "idle"
    /\ Result = None
    /\ result = [tag |-> "none"]
    /\ TreeInit
    /\ ContextHash = FullDependencyConsumer_new.ContextHash
    /\ Dependencies = FullDependencyConsumer_new.Dependencies
    /\ PrebuiltModuleDeps = FullDependencyConsumer_new.PrebuiltModuleDeps
    /\ ClangModuleDeps = FullDependencyConsumer_new.ClangModuleDeps
    /\ Opts = None
    /\ reported = << >>
    /\ lastReport = "none"
    /\ CommandLine = << >>
    /\ AlreadySeen = {}
    /\ useCAS = FALSE
    /\ fsLog = << >>
    /\ lookupCalls = << >>

(***************************************************************************)
(* The preprocessor's events, as the worker's run delivers them to the     *)
(* IncludeTreePPConsumer: the main file is entered first, every exit       *)
(* leaves the file entered last, probes come while a file is open.         *)
(***************************************************************************)
Scanning == pc = "running" /\ op \in IncludeTreeOps /\ ~finalized

\* the include tree the front end saw for a file it has left
ppTree(frame) == [fid |-> frame.fid, kids |-> frame.kids, probes |-> frame.probes]

\* the calls that can fail while a file is entered: the store can refuse the
\* predefines buffer, and "b" is the header that can be unreadable or whose
\* FileNodes the store can refuse
FaultsOf(FID) ==
    IF FID = PredefinesFID THEN { "none", "store" }
    ELSE IF FID = "b" THEN { "none", "read", "createAlias", "createFile" }
    ELSE { "none" }

\* the calls that can fail while a file is left: the store can refuse the
\* tree node of "a"
ExitFaultsOf(FID) == IF FID = "a" THEN { "none", "tree" } ELSE { "none" }

PP_enteredInclude(FID, fault) ==
    /\ Scanning
    /\ nEvents < MaxEvents
    /\ Len(ppStack) < MaxDepth
    /\ IF ppStack = << >> THEN FID = MainFID ELSE FID # MainFID
    /\ fault \in FaultsOf(FID)
    /\ SetConsumer(enteredInclude(Consumer, FID, fault), "event")
    /\ ppStack' = Append(ppStack, [fid |-> FID, kids |-> << >>, probes |-> << >>])
    /\ ppIncluded' = IF FID = PredefinesFID THEN ppIncluded
                     ELSE ppIncluded \cup { OrigEntry(FID) }
    /\ nEvents' = nEvents + 1
    /\ UNCHANGED << toolVars, finalized, CI, refFinal, depVars, callVars >>

PP_exitedInclude(offset, fault) ==
    /\ Scanning
    /\ nEvents < MaxEvents
    /\ Len(ppStack) >= 2
    /\ fault \in ExitFaultsOf(back(ppStack).fid)
    /\ LET Include == back(ppStack).fid
           IncludedBy == ppStack[Len(ppStack) - 1].fid
       IN  SetConsumer(exitedInclude(Consumer, IncludedBy, Include, offset, fault),
                       "event")
    /\ ppStack' = IF hasValue(ErrorToReport) THEN pop_back(ppStack)
                  ELSE [pop_back(ppStack) EXCEPT ![Len(ppStack) - 1].kids =
                           Append(@, << ppTree(back(ppStack)), offset >>)]
    /\ nEvents' = nEvents + 1
    /\ UNCHANGED << toolVars, ppIncluded, finalized, CI, refFinal, depVars, callVars >>

PP_handleHasIncludeCheck(Res) ==
    /\ Scanning
    /\ nEvents < MaxEvents
    /\ Len(ppStack) >= 1
    /\ SetConsumer(handleHasIncludeCheck(Consumer, Res), "event")
    /\ ppStack' = IF hasValue(ErrorToReport) THEN ppStack
                  ELSE [ppStack EXCEPT ![Len(ppStack)].probes = Append(@, Res)]
    /\ nEvents' = nEvents + 1
    /\ UNCHANGED << toolVars, ppIncluded, finalized, CI, refFinal, depVars, callVars >>

\* the end of the main file: finalize(CI)
PP_finalize(ci, Enumeration, unreadable) ==
    /\ Scanning
    /\ Len(ppStack) = 1
    /\ SetConsumer(finalize(Consumer, ci, Enumeration, unreadable), "finalize")
    /\ refFinal' = Some(finalize(Consumer, ci, ReferenceEnumeration(ppIncluded),
                                 unreadable))
    /\ finalized' = TRUE
    /\ CI' = Some(ci)
    /\ UNCHANGED << toolVars, ppStack, ppIncluded, nEvents, depVars, callVars >>

(***************************************************************************)
(* DependencyScanningTool: each operation is a call, which hands a fresh   *)
(* consumer to the worker, and a return, which runs once the worker's      *)
(* computeDependencies is back with its Result.                            *)
(***************************************************************************)
\* llvm::Error of a failed run
RunFailure == Err("scan", << >>)

\* How a run can end: it fails before the preprocessor starts (no compiler
\* invocation could be built from the command line), or the preprocessor
\* reaches the end of the main file and the run is a success (None) or, with
\* errors diagnosed on the way, a failure.
RunResults ==
    IF finalized THEN { None, Some(RunFailure) }
    ELSE IF ppStack = << >> THEN { Some(RunFailure) }
    ELSE {}

\* the start of a call: the consumers are fresh, the worker starts its run
Tool_call(o) ==
    /\ pc = "idle"
    /\ op' = o
    /\ pc' = "running"
    /\ UNCHANGED << Result, result, treeVars, depVars, CommandLine, AlreadySeen,
                    lookupCalls >>

getIncludeTree_call == Tool_call("getIncludeTree") /\ UNCHANGED << useCAS, fsLog >>

getIncludeTree_return(res, fault) ==
    /\ pc = "running" /\ op = "getIncludeTree"
    /\ res \in RunResults
    /\ Result' = res
    /\ IF hasValue(res)
       THEN /\ result' = [tag |-> "failure", err |-> res[1]]
            /\ UNCHANGED << consumerVars, historyVars >>
       ELSE LET r == IncludeTreePPConsumer_getIncludeTree(Consumer, fault, TRUE)
            IN  /\ result' = [x \in DOMAIN r \ { "c" } |-> r[x]]
                /\ SetConsumer(r.c, "return")
    /\ pc' = "done"
    /\ UNCHANGED << op, ppVars, depVars, callVars >>

getIncludeTreeFromCompilerInvocation_call ==
    Tool_call("getIncludeTreeFromCompilerInvocation") /\ UNCHANGED << useCAS, fsLog >>

\* computeDependenciesFromCompilerInvocation returns nothing: the call never
\* learns how the run ended
getIncludeTreeFromCompilerInvocation_return(res, fault, assertions) ==
    /\ pc = "running" /\ op = "getIncludeTreeFromCompilerInvocation"
    /\ res \in RunResults
    /\ Result' = res
    /\ LET r == IncludeTreePPConsumer_getIncludeTree(Consumer, fault, assertions)
       IN  /\ result' = [x \in DOMAIN r \ { "c" } |-> r[x]]
           /\ SetConsumer(r.c, "return")
    /\ pc' = "done"
    /\ UNCHANGED << op, ppVars, depVars, callVars >>

(***************************************************************************)
(* The worker's reports to a dependency consumer: MakeDependencyPrinter-    *)
(* Consumer (getDependencyFile), MakeDependencyTree (the two tree          *)
(* operations) or FullDependencyConsumer (getFullDependencies).            *)
(***************************************************************************)
TreeOps == { "getDependencyTree", "getDependencyTreeFromCompilerInvocation" }

DependencyOps == { "getDependencyFile", "getFullDependencies" } \cup TreeOps

Reporting == pc = "running" /\ op \in DependencyOps

\* the FullDependencyConsumer as the record the operations work on
Deps ==
    [ContextHash |-> ContextHash, Dependencies |-> Dependencies,
     PrebuiltModuleDeps |-> PrebuiltModuleDeps, ClangModuleDeps |-> ClangModuleDeps]

SetDeps(d) ==
    /\ ContextHash' = d.ContextHash
    /\ Dependencies' = d.Dependencies
    /\ PrebuiltModuleDeps' = d.PrebuiltModuleDeps
    /\ ClangModuleDeps' = d.ClangModuleDeps

\* MakeDependencyPrinterConsumer's handlers, on its members Opts and
\* Dependencies
MakeDependencyPrinterConsumer_handleDependencyOutputOpts(Opts_, o) == Some(o)

\* a handler that puts the newest path first (C11 tells it apart)
MakeDependencyPrinterConsumer_handleFileDependency_front(Dependencies_, File) ==
    << File >> \o Dependencies_

MakeDependencyPrinterConsumer_handleFileDependency(Dependencies_, File) ==
    Append(Dependencies_, File)

\* handleDependencyOutputOpts: only MakeDependencyPrinterConsumer's keeps
\* the options
W_handleDependencyOutputOpts(o) ==
    /\ Reporting
    /\ Opts' = IF op = "getDependencyFile"
               THEN MakeDependencyPrinterConsumer_handleDependencyOutputOpts(Opts, o)
               ELSE Opts
    /\ lastReport' = "DependencyOutputOpts"
    /\ UNCHANGED << toolVars, treeVars, ContextHash, Dependencies,
                    PrebuiltModuleDeps, ClangModuleDeps, reported, callVars >>

\* handleFileDependency: MakeDependencyTree's does nothing
W_handleFileDependency(File) ==
    /\ Reporting
    /\ Len(reported) < MaxFileDeps
    /\ reported' = Append(reported, File)
    /\ lastReport' = "FileDependency"
    /\ IF op = "getDependencyFile"
       THEN /\ Dependencies' =
                   MakeDependencyPrinterConsumer_handleFileDependency(Dependencies, File)
            /\ UNCHANGED << ContextHash, PrebuiltModuleDeps, ClangModuleDeps, Opts >>
       ELSE IF op = "getFullDependencies"
       THEN SetDeps(handleFileDependency(Deps, File)) /\ UNCHANGED Opts
       ELSE UNCHANGED << ContextHash, Dependencies, PrebuiltModuleDeps,
                         ClangModuleDeps, Opts >>
    /\ UNCHANGED << toolVars, treeVars, callVars >>

\* handlePrebuiltModuleDependency: only FullDependencyConsumer's keeps it
W_handlePrebuiltModuleDependency(PMD) ==
    /\ Reporting
    /\ Len(PrebuiltModuleDeps) < MaxPrebuilt
    /\ IF op = "getFullDependencies"
       THEN SetDeps(handlePrebuiltModuleDependency(Deps, PMD)) /\ UNCHANGED Opts
       ELSE UNCHANGED memberVars
    /\ lastReport' = "PrebuiltModuleDependency"
    /\ UNCHANGED reported
    /\ UNCHANGED << toolVars, treeVars, callVars >>

\* handleModuleDependency: only FullDependencyConsumer's keeps it
W_handleModuleDependency(MD) ==
    /\ Reporting
    /\ IF op = "getFullDependencies"
       THEN SetDeps(handleModuleDependency(Deps, MD)) /\ UNCHANGED Opts
       ELSE UNCHANGED memberVars
    /\ lastReport' = "ModuleDependency"
    /\ UNCHANGED reported
    /\ UNCHANGED << toolVars, treeVars, callVars >>

\* handleContextHash: only FullDependencyConsumer's keeps it
W_handleContextHash(Hash) ==
    /\ Reporting
    /\ IF op = "getFullDependencies"
       THEN SetDeps(handleContextHash(Deps, Hash)) /\ UNCHANGED Opts
       ELSE UNCHANGED memberVars
    /\ lastReport' = "ContextHash"
    /\ UNCHANGED reported
    /\ UNCHANGED << toolVars, treeVars, callVars >>

(***************************************************************************)
(* The dependency operations of the facade.                                *)
(***************************************************************************)
\* a failure of the tracking filesystem to make its tree
TreeFailure == Err("createTreeFromNewAccesses", << >>)

\* the words of a line, each after a blank
RECURSIVE spaced(_)
spaced(words) ==
    IF words = << >> THEN "" ELSE " " \o words[1] \o spaced(SubSeq(words, 2, Len(words)))

\* DependencyFileGenerator::outputDependencyFile for one target: the target,
\* a colon, the prerequisites
outputDependencyFile(Targets, Files) == Targets[1] \o ":" \o spaced(Files)

\* MakeDependencyPrinterConsumer::printDependencies: the generator is given
\* the options and every dependency, and prints target and prerequisites
printDependencies(o, Deps_) ==
    [tag |-> "text", Targets |-> o.Targets, Prerequisites |-> Deps_,
     text |-> outputDependencyFile(o.Targets, Deps_)]

getDependencyFile_call ==
    Tool_call("getDependencyFile") /\ UNCHANGED << useCAS, fsLog >>

\* a build without assertions goes on without options (undefined)
getDependencyFile_return(res, assertions) ==
    /\ pc = "running" /\ op = "getDependencyFile"
    /\ Result' = res
    /\ result' = IF hasValue(res) THEN [tag |-> "failure", err |-> res[1]]
                 ELSE IF hasValue(Opts) THEN printDependencies(Opts[1], Dependencies)
                 ELSE IF assertions
                 THEN [tag |-> "abort", err |-> Err("assert", << "Opts" >>)]
                 ELSE [tag |-> "undefined", err |-> Err("undefined", << "*Opts" >>)]
    /\ pc' = "done"
    /\ UNCHANGED << op, treeVars, depVars, callVars >>

getDependencyTree_call ==
    /\ Tool_call("getDependencyTree")
    /\ fsLog' = Append(fsLog, "trackNewAccesses")
    /\ UNCHANGED useCAS

getDependencyTree_return(res, treeOk) ==
    /\ pc = "running" /\ op = "getDependencyTree"
    /\ Result' = res
    /\ IF hasValue(res)
       THEN /\ result' = [tag |-> "failure", err |-> res[1]]
            /\ UNCHANGED fsLog
       ELSE /\ fsLog' = Append(fsLog, "createTreeFromNewAccesses")
            /\ result' = IF treeOk THEN [tag |-> "tree", tree |-> TreeOfNewAccesses]
                         ELSE [tag |-> "failure", err |-> TreeFailure]
    /\ pc' = "done"
    /\ UNCHANGED << op, treeVars, depVars, CommandLine, AlreadySeen, useCAS,
                    lookupCalls >>

getDependencyTreeFromCompilerInvocation_call ==
    /\ Tool_call("getDependencyTreeFromCompilerInvocation")
    /\ fsLog' = fsLog \o << "trackNewAccesses", "setCurrentWorkingDirectory" >>
    /\ UNCHANGED useCAS

\* computeDependenciesFromCompilerInvocation returns nothing: the call never
\* learns how the run ended
getDependencyTreeFromCompilerInvocation_return(res, treeOk) ==
    /\ pc = "running" /\ op = "getDependencyTreeFromCompilerInvocation"
    /\ Result' = res
    /\ fsLog' = Append(fsLog, "createTreeFromNewAccesses")
    /\ result' = IF treeOk THEN [tag |-> "tree", tree |-> TreeOfNewAccesses]
                 ELSE [tag |-> "failure", err |-> TreeFailure]
    /\ pc' = "done"
    /\ UNCHANGED << op, treeVars, depVars, CommandLine, AlreadySeen, useCAS,
                    lookupCalls >>

\* a call that marks the tracking filesystem whether or not the CAS is in
\* use (C12 tells it apart)
getFullDependencies_call_marking(cas) ==
    /\ Tool_call("getFullDependencies")
    /\ useCAS' = cas
    /\ fsLog' = fsLog \o << "trackNewAccesses", "setCurrentWorkingDirectory" >>

getFullDependencies_call(cas) ==
    /\ Tool_call("getFullDependencies")
    /\ useCAS' = cas
    /\ fsLog' = IF cas
                THEN fsLog \o << "trackNewAccesses", "setCurrentWorkingDirectory" >>
                ELSE fsLog

\* cmd and seen are the caller's CommandLine and AlreadySeen, which the call
\* reads once the worker is back
getFullDependencies_return(res, cmd, seen, treeOk) ==
    /\ pc = "running" /\ op = "getFullDependencies"
    /\ Result' = res
    /\ CommandLine' = cmd
    /\ AlreadySeen' = seen
    /\ IF hasValue(res)
       THEN /\ result' = [tag |-> "failure", err |-> res[1]]
            /\ UNCHANGED << fsLog, lookupCalls, memberVars >>
       ELSE /\ fsLog' = IF useCAS THEN Append(fsLog, "createTreeFromNewAccesses")
                        ELSE fsLog
            /\ IF useCAS /\ ~treeOk
               THEN /\ result' = [tag |-> "failure", err |-> TreeFailure]
                    /\ UNCHANGED << lookupCalls, memberVars >>
               ELSE LET r == FullDependencyConsumer_getFullDependencies(
                                 Deps, seen, cmd,
                                 IF useCAS THEN Some(TreeOfNewAccesses) ELSE None)
                    IN  /\ result' = [tag |-> "deps", FDR |-> r.FDR]
                        /\ lookupCalls' = lookupCalls \o r.calls
                        /\ SetDeps(r.d) /\ UNCHANGED Opts
    /\ pc' = "done"
    /\ UNCHANGED << op, treeVars, reported, lastReport, useCAS >>

\* how a run of a dependency consumer can end
DepRunResults == { None, Some(RunFailure) }

Next ==
    \/ getIncludeTree_call
    \/ getIncludeTreeFromCompilerInvocation_call
    \/ \E FID \in { MainFID, PredefinesFID } \cup HeaderFIDs, fault \in Faults :
           PP_enteredInclude(FID, fault)
    \/ \E offset \in Offsets, fault \in Faults : PP_exitedInclude(offset, fault)
    \/ \E Res \in BOOLEAN : PP_handleHasIncludeCheck(Res)
    \/ \E ci \in CompilerInstances :
           \E unreadable \in Unreadable(ci),
              Enumeration \in IF ci.ImplicitPCHInclude = NoPCH
                              THEN { ReferenceEnumeration(ppIncluded) }
                              ELSE Enumerations(ppIncluded) :
               PP_finalize(ci, Enumeration, unreadable)
    \/ \E res \in { None, Some(RunFailure) },
          fault \in { "none", "tree", "store", "createFile" } :
           getIncludeTree_return(res, fault)
    \/ \E res \in { None, Some(RunFailure) },
          fault \in { "none", "tree", "store", "createFile" },
          assertions \in BOOLEAN :
           getIncludeTreeFromCompilerInvocation_return(res, fault, assertions)
    \/ getDependencyFile_call
    \/ getDependencyTree_call
    \/ getDependencyTreeFromCompilerInvocation_call
    \/ \E cas \in BOOLEAN : getFullDependencies_call(cas)
    \/ \E o \in { [Targets |-> << "t" >>] } : W_handleDependencyOutputOpts(o)
    \/ \E File \in FilePaths : W_handleFileDependency(File)
    \/ \E PMD \in PrebuiltModuleDepRecords : W_handlePrebuiltModuleDependency(PMD)
    \/ \E MD \in ModuleDepsRecords : W_handleModuleDependency(MD)
    \/ \E Hash \in ContextHashes : W_handleContextHash(Hash)
    \/ \E res \in DepRunResults, assertions \in BOOLEAN :
           getDependencyFile_return(res, assertions)
    \/ \E res \in DepRunResults, treeOk \in BOOLEAN :
           getDependencyTree_return(res, treeOk)
    \/ \E res \in DepRunResults, treeOk \in BOOLEAN :
           getDependencyTreeFromCompilerInvocation_return(res, treeOk)
    \/ \E res \in DepRunResults, cmd \in SampleCommandLines,
          seen \in SUBSET ModuleIDs, treeOk \in BOOLEAN :
           getFullDependencies_return(res, cmd, seen, treeOk)

Spec == Init /\ [][Next]_vars

(***************************************************************************)
(* Properties of the Include Tree Builder.                                 *)
(***************************************************************************)
\* the FileNode a file resolves to
FileNodeOf(FID) ==
    IF FID = PredefinesFID
    THEN [Filename |-> << "<built-in>" >>, Contents |-> [blob |-> "bytes_predefines"]]
    ELSE [Filename |-> getName(FID), Contents |-> [blob |-> FileBytes(FID)]]

\* the tree node of a file the front end has left: its includes, in the order
\* they were opened directly inside it, and its probes
RECURSIVE NodeOf(_)
NodeOf(t) ==
    [FileCharacteristic |-> getFileCharacteristic(t.fid),
     File |-> FileNodeOf(t.fid),
     Includes |-> [i \in 1..Len(t.kids) |->
                      << NodeOf(t.kids[i][1]), t.kids[i][2] >>],
     HasIncludeChecks |-> t.probes]

\* C1: with no failure, the frame stack mirrors the files the preprocessor
\* has open: every exit popped exactly the top frame and appended (its node,
\* offset) to the end of the Includes of the frame below, so each frame's
\* Includes are the (child node, offset) pairs of the includes opened
\* directly inside that file, in inclusion order; and the root returned is
\* the node of the main file built the same way.
C1_ExitAppendsToParent ==
    /\ (op \in IncludeTreeOps /\ pc = "running" /\ ~hasValue(ErrorToReport))
         => /\ Len(IncludeStack) = Len(ppStack)
            /\ \A i \in 1..Len(ppStack) :
                 /\ IncludeStack[i].File = FileNodeOf(ppStack[i].fid)
                 /\ IncludeStack[i].Includes =
                        [j \in 1..Len(ppStack[i].kids) |->
                            << NodeOf(ppStack[i].kids[j][1]), ppStack[i].kids[j][2] >>]
    /\ (op \in IncludeTreeOps /\ pc = "done" /\ result.tag = "root")
         => result.root.MainTree = NodeOf(ppTree(ppStack[1]))

\* main includes A at 40 and then B at 120; both were popped and attached
\* to the frame of main, A first
C1_Witness ==
    /\ pc = "done" /\ result.tag = "root"
    /\ result.root.MainTree.File = FileNodeOf(MainFID)
    /\ Len(result.root.MainTree.Includes) = 2
    /\ result.root.MainTree.Includes[1][2] = 40
    /\ result.root.MainTree.Includes[1][1].File = FileNodeOf("a")
    /\ result.root.MainTree.Includes[2][2] = 120
    /\ result.root.MainTree.Includes[2][1].File = FileNodeOf("b")

\* the consumer's own getIncludeTree has run and returned
ConsumerReturned ==
    /\ pc = "done"
    /\ \/ op = "getIncludeTreeFromCompilerInvocation"
       \/ op = "getIncludeTree" /\ ~hasValue(Result)

\* a step that delivers an enter, exit or probe event
EventStep == nEvents' = nEvents + 1

\* the step that runs finalize(CI)
FinalizeStep == ~finalized /\ finalized'

\* C2 (events): once an error is recorded, enter, exit and probe events
\* leave the consumer as it is.
C2_EventsIgnored ==
    [][(hasValue(ErrorToReport) /\ EventStep) => UNCHANGED consumerVars]_vars

\* C2: once an enter or exit event has recorded an error, getIncludeTree
\* returns that failure and never an IncludeTreeRoot.
C2_ReturnsThatFailure ==
    (ConsumerReturned /\ hasValue(firstError) /\ firstError[1].during = "event")
        => (result.tag = "failure" /\ result.err = firstError[1].err)

\* C3: with an error already recorded, finalize adds nothing to the
\* manifest, sets no PCH ref and does not replace the recorded error.
C3_FinalizeSuppressed ==
    [][(hasValue(ErrorToReport) /\ FinalizeStep)
          => UNCHANGED << IncludedFiles, PCHRef, ErrorToReport >>]_vars

\* C7: whatever order the front end enumerates its included files in,
\* finalize leaves the consumer (manifest, PCH ref, error) exactly as the
\* reference order leaves it, and the root returned is the root of that
\* consumer: the not-seen files are appended in ascending UID order.
C7_ManifestDeterministic ==
    /\ (finalized /\ pc = "running") => Consumer = refFinal[1]
    /\ (finalized /\ pc = "done" /\ result.tag = "root")
         => /\ result.root.FileList = [Files |-> refFinal[1].IncludedFiles]
            /\ result.root.PCHRef = refFinal[1].PCHRef
            /\ result.root.MainTree = NodeOf(ppTree(ppStack[1]))

\* the path of a manifest entry
PathOf(entry) == entry.File.Filename

\* finalize swept the precompiled header's files: "b", "q" and "p" were not
\* seen, and their entries end the manifest in UID order (b: 2, q: 3, p: 4)
C7_Witness ==
    /\ finalized /\ pc = "running" /\ ~hasValue(ErrorToReport)
    /\ hasValue(PCHRef)
    /\ Len(IncludedFiles) >= 4
    /\ PathOf(IncludedFiles[Len(IncludedFiles)]) = getName("p")
    /\ PathOf(IncludedFiles[Len(IncludedFiles) - 1]) = getName("q")
    /\ PathOf(IncludedFiles[Len(IncludedFiles) - 2]) = getName("b")
    /\ PathOf(IncludedFiles[Len(IncludedFiles) - 3]) = tryGetRealPathName("b")

\* C8: the manifest holds at most one entry for any given path.
C8_OneEntryPerPath ==
    \A i, j \in 1..Len(IncludedFiles) :
        PathOf(IncludedFiles[i]) = PathOf(IncludedFiles[j]) => i = j

\* C8 (re-entering): entering a file that is already resolved adds no
\* manifest entry and marks nothing.
C8_ReenterAddsNothing ==
    [][(EventStep /\ Len(ppStack') = Len(ppStack) + 1
          /\ back(ppStack').fid # PredefinesFID
          /\ hasValue(ObjectForFile[OrigEntry(back(ppStack').fid)]))
        => UNCHANGED << IncludedFiles, SeenIncludeFiles, ObjectForFile >>]_vars

\* the files whose real path is known and is not their absolute logical path
Aliased == { "b", "ign" }

\* the manifest entry of a file under a path
EntryOf(FE, path) ==
    [File |-> [Filename |-> path, Contents |-> [blob |-> FileBytes(FE)]],
     Size |-> getSize(FE)]

ReportedModules ==
    { << >>,
      << [ID |-> [ModuleName |-> "M", ContextHash |-> "h1"],
          ImportedByMainFile |-> TRUE] >>,
      << [ID |-> [ModuleName |-> "M", ContextHash |-> "h1"],
          ImportedByMainFile |-> FALSE],
         [ID |-> [ModuleName |-> "N", ContextHash |-> "h1"],
          ImportedByMainFile |-> TRUE] >> }

InitCmdLine ==
    /\ op = "getFullDependencies" /\ pc = "running"
    /\ Result = None /\ result = [tag |-> "none"]
    /\ TreeInit
    /\ ContextHash = "h1" /\ Dependencies = << >> /\ Opts = None
    /\ reported = << >>
    /\ lastReport = "none"
    /\ PrebuiltModuleDeps \in
           { << >> } \cup { << PMD >> : PMD \in PrebuiltModuleDepRecords }
    /\ ClangModuleDeps \in ReportedModules
    /\ CommandLine = << >> /\ AlreadySeen = {}
    /\ useCAS = FALSE /\ fsLog = << >> /\ lookupCalls = << >>

NextCmdLine ==
    \E cmd \in CommandLines : getFullDependencies_return(None, cmd, {}, TRUE)

SpecCmdLine == InitCmdLine /\ [][NextCmdLine]_vars

\* getFullDependencies has returned a DependencyRecord
ReturnedDeps ==
    pc = "done" /\ op = "getFullDependencies" /\ result.tag = "deps"

(***************************************************************************)
(* C4: the rewritten command line of the DependencyRecord is the original  *)
(* arguments after position 0, in their order, without exactly those that  *)
(* start with -fmodules-cache-path=, -fmodules-prune-interval=,            *)
(* -fmodules-prune-after= or -fbuild-session-file=, or equal               *)
(* -fmodules-validate-once-per-build-session; then -fno-implicit-modules   *)
(* and -fno-implicit-module-maps; then only -fmodule-file= flags.          *)
(***************************************************************************)
C4_CommandLineRewritten ==
    ReturnedDeps /\ Len(CommandLine) >= 1 =>
        LET Removed(Arg) ==
                \/ \E Prefix \in { "-fmodules-cache-path=", "-fmodules-prune-interval=",
                                   "-fmodules-prune-after=", "-fbuild-session-file=" } :
                       /\ Len(Arg) >= Len(Prefix)
                       /\ SubSeq(Arg, 1, Len(Prefix)) = Prefix
                \/ Arg = "-fmodules-validate-once-per-build-session"
            Rest == [i \in 1..(Len(CommandLine) - 1) |-> CommandLine[i + 1]]
            Kept == SelectSeq(Rest, LAMBDA Arg : ~Removed(Arg))
            Out == result.FDR.FullDeps.CommandLine
            n == Len(Kept)
        IN  /\ Len(Out) >= n + 2
            /\ \A i \in 1..n : Out[i] = Kept[i]
            /\ Out[n + 1] = "-fno-implicit-modules"
            /\ Out[n + 2] = "-fno-implicit-module-maps"
            /\ \A i \in (n + 3)..Len(Out) :
                   /\ Len(Out[i]) >= Len("-fmodule-file=")
                   /\ SubSeq(Out[i], 1, Len("-fmodule-file=")) = "-fmodule-file="

\* a removed argument next to one that only looks like it, with a prebuilt
\* module and a directly imported one behind the two appended flags
C4_Witness ==
    /\ ReturnedDeps
    /\ CommandLine = << "clang", "-fmodules-validate-once-per-build-session",
                        "-fmodules-validate-once-per-build-session=1" >>
    /\ result.FDR.FullDeps.CommandLine =
           << "-fmodules-validate-once-per-build-session=1",
              "-fno-implicit-modules", "-fno-implicit-module-maps",
              "-fmodule-file=/pre/P.pcm", "-fmodule-file=/out/M-h1.pcm" >>

(***************************************************************************)
(* C5: the discovered modules are exactly the stored module records whose  *)
(* identity is not in AlreadySeen, and the directly imported list has      *)
(* every stored record marked ImportedByMainFile, in AlreadySeen or not.   *)
(***************************************************************************)
C5_DiscoveredExcludesSeen ==
    ReturnedDeps =>
        LET Discovered == result.FDR.DiscoveredModules
            Direct == result.FDR.FullDeps.ClangModuleDeps
            Stored == { ClangModuleDeps[i] : i \in 1..Len(ClangModuleDeps) }
        IN  /\ { Discovered[i] : i \in 1..Len(Discovered) } =
                   { MD \in Stored : MD.ID \notin AlreadySeen }
            /\ Len(Discovered) = Cardinality({ MD \in Stored : MD.ID \notin AlreadySeen })
            /\ { Direct[i] : i \in 1..Len(Direct) } =
                   { MD.ID : MD \in { X \in Stored : X.ImportedByMainFile } }

\* M, imported by the main file, was seen by an earlier scan: it is not
\* discovered again and is still listed, while N is discovered
C5_Witness ==
    /\ ReturnedDeps
    /\ AlreadySeen = { [ModuleName |-> "M", ContextHash |-> "h1"] }
    /\ \E i \in 1..Len(ClangModuleDeps) :
           ClangModuleDeps[i] = [ID |-> [ModuleName |-> "M", ContextHash |-> "h1"],
                                 ImportedByMainFile |-> TRUE]
    /\ \E i \in 1..Len(ClangModuleDeps) : ClangModuleDeps[i].ID.ModuleName = "N"
    /\ Len(result.FDR.DiscoveredModules) = 1
    /\ result.FDR.DiscoveredModules[1].ID.ModuleName = "N"
    /\ \E i \in 1..Len(result.FDR.FullDeps.ClangModuleDeps) :
           result.FDR.FullDeps.ClangModuleDeps[i].ModuleName = "M"

(***************************************************************************)
(* C6: the callback is called once for each stored module record marked    *)
(* ImportedByMainFile, with kind ModuleFile, and for no other module; the  *)
(* command line ends with one -fmodule-file= flag per prebuilt module (its *)
(* path) and then one per directly imported module (the callback's         *)
(* result), in the order of the directly imported identities.  The flat    *)
(* and the tree operations never call it.                                  *)
(***************************************************************************)
C6_CallbackPerDirectImport ==
    /\ op # "getFullDependencies" => lookupCalls = << >>
    /\ ReturnedDeps =>
           LET Direct == result.FDR.FullDeps.ClangModuleDeps
               Out == result.FDR.FullDeps.CommandLine
               np == Len(PrebuiltModuleDeps)
               nd == Len(Direct)
               base == Len(Out) - np - nd
           IN  /\ Len(lookupCalls) = nd
               /\ \A i \in 1..nd :
                      /\ lookupCalls[i].Kind = "ModuleFile"
                      /\ lookupCalls[i].ID = Direct[i]
                      /\ Out[base + np + i] =
                             "-fmodule-file=" \o LookupModuleOutput(Direct[i], "ModuleFile")
               /\ \A i \in 1..Len(ClangModuleDeps) :
                      Cardinality({ j \in 1..nd : lookupCalls[j].ID = ClangModuleDeps[i].ID }) =
                          IF ClangModuleDeps[i].ImportedByMainFile THEN 1 ELSE 0
               /\ base >= 2
               /\ \A i \in 1..np :
                      Out[base + i] = "-fmodule-file=" \o PrebuiltModuleDeps[i].PCMFile

\* two directly imported modules and a prebuilt one: two calls, three flags
C6_Witness ==
    /\ ReturnedDeps
    /\ Len(PrebuiltModuleDeps) = 1
    /\ Len(ClangModuleDeps) = 2
    /\ \A i \in 1..2 : ClangModuleDeps[i].ImportedByMainFile
    /\ Len(lookupCalls) = 2
    /\ lookupCalls[1].ID # lookupCalls[2].ID

(***************************************************************************)
(* C10: whichever operation of the facade was called, a failed run gives   *)
(* no artifact: the call returns a failure.                                *)
(***************************************************************************)
C10_FailedRunNoArtifact ==
    pc = "done" /\ hasValue(Result) => result.tag = "failure"

\* the four operations that look at the outcome of the run do return it
C10_OutcomeCheckedOps ==
    /\ pc = "done" /\ hasValue(Result)
    /\ op \in { "getDependencyFile", "getDependencyTree", "getIncludeTree",
                "getFullDependencies" }
    => result.tag = "failure"


(***************************************************************************)
(* Properties of the flat dependency text and of the tracked accesses.     *)
(***************************************************************************)
\* a step in which the worker sends an event of one of the kinds
ReportStep(kinds) ==
    /\ pc = "running" /\ pc' = "running"
    /\ lastReport' \in kinds
    /\ reported' = reported

(***************************************************************************)
(* C11: in getDependencyFile, module, prebuilt-module and context-hash     *)
(* events leave the consumer as it is; the prerequisites handed to the     *)
(* printer are the paths reported by file-dependency events, in the order  *)
(* reported, and for target t and file deps a.h, b.h the text is           *)
(* "t: a.h b.h".                                                           *)
(***************************************************************************)
C11_FlatModeKeepsOnlyFiles ==
    /\ [][(op = "getDependencyFile"
             /\ ReportStep({ "ModuleDependency", "PrebuiltModuleDependency",
                             "ContextHash" }))
           => UNCHANGED memberVars]_vars
    /\ [](op = "getDependencyFile" => Dependencies = reported)
    /\ [](op = "getDependencyFile" /\ pc = "done" /\ result.tag = "text"
            => /\ result.Prerequisites = reported
               /\ (reported = << "a.h", "b.h" >> /\ Opts[1].Targets = << "t" >>
                      => result.text = "t: a.h b.h"))

\* a.h and b.h were reported, a module event came last, and the text is out
C11_Witness ==
    /\ op = "getDependencyFile" /\ pc = "done"
    /\ reported = << "a.h", "b.h" >>
    /\ lastReport = "ModuleDependency"
    /\ result.tag = "text" /\ result.text = "t: a.h b.h"

\* how often the tracking filesystem was asked for something
Count(log, what) == Cardinality({ i \in 1..Len(log) : log[i] = what })

\* the calls that track accesses: the two tree operations, and
\* getFullDependencies when the worker uses the CAS
Tracking == op \in TreeOps \/ (op = "getFullDependencies" /\ useCAS)

(***************************************************************************)
(* C12: a call that snapshots the tracked accesses marks the tracking      *)
(* filesystem before any event of its run and makes the tree only after    *)
(* the run is over, at most once.  getFullDependencies marks if and only   *)
(* if the CAS is in use and, its run having succeeded, makes the tree if   *)
(* and only if the CAS is in use; the record has a tree identity exactly   *)
(* when the CAS is in use and run and snapshot succeeded, and a failed     *)
(* snapshot is the failure the call returns.                               *)
(***************************************************************************)
C12_MarkThenSnapshot ==
    /\ [][(Tracking /\ pc = "running" /\ lastReport' # lastReport)
            => /\ fsLog # << >> /\ fsLog[1] = "trackNewAccesses"
               /\ Count(fsLog', "createTreeFromNewAccesses") = 0]_vars
    /\ [](pc \in { "running", "done" } =>
            /\ Count(fsLog, "trackNewAccesses") = (IF Tracking THEN 1 ELSE 0)
            /\ Count(fsLog, "createTreeFromNewAccesses") <= 1
            /\ Count(fsLog, "createTreeFromNewAccesses") = 1
                   => /\ Tracking /\ pc = "done"
                      /\ fsLog[Len(fsLog)] = "createTreeFromNewAccesses")
    /\ [](op = "getFullDependencies" /\ pc = "done" =>
            /\ ~hasValue(Result)
                   => (Count(fsLog, "createTreeFromNewAccesses") = 1 <=> useCAS)
            /\ result.tag = "deps"
                   => (hasValue(result.FDR.FullDeps.CASFileSystemRootID) <=> useCAS)
            /\ hasValue(Result) => result = [tag |-> "failure", err |-> Result[1]]
            /\ (result.tag = "failure" /\ ~hasValue(Result))
                   => /\ useCAS /\ result.err = TreeFailure
                      /\ fsLog[Len(fsLog)] = "createTreeFromNewAccesses")

\* getFullDependencies with the CAS in use: events came in, the run
\* succeeded, and the record carries the tree made after them
C12_Witness ==
    /\ op = "getFullDependencies" /\ pc = "done" /\ useCAS
    /\ lastReport # "none"
    /\ fsLog = << "trackNewAccesses", "setCurrentWorkingDirectory",
                  "createTreeFromNewAccesses" >>
    /\ result.tag = "deps"
    /\ result.FDR.FullDeps.CASFileSystemRootID = Some(TreeOfNewAccesses)


(***************************************************************************)
(* Properties of the frame stack.                                          *)
(***************************************************************************)
\* the ref getObjectForFile has for a file that was entered
ResolvedRef(FID) ==
    IF FID = PredefinesFID THEN PredefinesBufferRef[1]
    ELSE ObjectForFile[OrigEntry(FID)][1]

\* the steps of the front end, told apart by what they do to the files open
EnterStep == EventStep /\ Len(ppStack') = Len(ppStack) + 1

ExitStep == EventStep /\ Len(ppStack') = Len(ppStack) - 1

ProbeStep == EventStep /\ Len(ppStack') = Len(ppStack)

\* the step in which the consumer's getIncludeTree runs
GetIncludeTreeStep ==
    /\ op \in IncludeTreeOps /\ pc = "running" /\ pc' = "done"
    /\ op = "getIncludeTree" => ~hasValue(Result')

(***************************************************************************)
(* C14: for a well-nested event sequence that starts with the main file    *)
(* and records no error, the stack is as deep as the number of files       *)
(* entered and not exited; it holds at least 2 frames when an exit is      *)
(* handled and at least 1 when a probe is; no exit pops the main file's    *)
(* frame; one frame is left when getIncludeTree runs; and the three        *)
(* assertions (top frame is the file left, new top is its includer, one    *)
(* frame at the end) hold.                                                 *)
(***************************************************************************)
C14_StackDepth ==
    /\ [](op \in IncludeTreeOps /\ pc = "running" /\ ~hasValue(ErrorToReport)
            => /\ Len(IncludeStack) = Len(ppStack)
               /\ ppStack # << >> => IncludeStack[1].File = FileNodeOf(MainFID))
    /\ [][~hasValue(ErrorToReport) =>
            /\ ExitStep =>
                 /\ Len(IncludeStack) >= 2
                 /\ back(IncludeStack).File = ResolvedRef(back(ppStack).fid)
                 /\ Len(IncludeStack') = Len(IncludeStack) - 1
                 /\ IncludeStack'[1].File = IncludeStack[1].File
                 /\ back(IncludeStack').File = ResolvedRef(back(ppStack').fid)
            /\ ProbeStep => Len(IncludeStack) >= 1
            /\ (GetIncludeTreeStep /\ nEvents > 0) =>
                 /\ Len(IncludeStack) = 1
                 /\ result'.tag \notin { "abort", "undefined" }]_vars

\* main was entered, probed, and an include of it entered and left; the
\* consumer's getIncludeTree then made the root of the one frame left
C14_Witness ==
    /\ op \in IncludeTreeOps /\ pc = "done" /\ result.tag = "root"
    /\ ~hasValue(ErrorToReport)
    /\ Len(ppStack) = 1
    /\ Len(ppStack[1].kids) >= 1
    /\ Len(ppStack[1].probes) >= 1
    /\ IncludeStack = << >>


\* the include-tree nodes made so far, in the order they were made
TreeLog ==
    LET made == SelectSeq(DB, LAMBDA e : e.kind = "IncludeTree")
    IN  [i \in 1..Len(made) |-> made[i].obj]

\* the node a frame makes
NodeOfFrame(frame) ==
    IncludeTree_create(frame.FileCharacteristic, frame.File, frame.Includes,
                       frame.HasIncludeChecks)

IsPrefix(s, t) == Len(s) <= Len(t) /\ SubSeq(t, 1, Len(s)) = s

(***************************************************************************)
(* C15: a node is made only after every include opened inside it has been  *)
(* made into a node and popped: each child ref in a frame's Includes, and  *)
(* in a node's, is a node made strictly earlier; the node is made of the   *)
(* frame as it is when it is popped, the frame is gone in the same step,   *)
(* and nothing made is changed afterwards.                                 *)
(***************************************************************************)
C15_ChildrenFinalizedFirst ==
    /\ [](\A i \in 1..Len(TreeLog) :
              \A k \in 1..Len(TreeLog[i].Includes) :
                  \E j \in 1..(i - 1) : TreeLog[j] = TreeLog[i].Includes[k][1])
    /\ [](\A f \in 1..Len(IncludeStack) :
              \A k \in 1..Len(IncludeStack[f].Includes) :
                  \E j \in 1..Len(TreeLog) : TreeLog[j] = IncludeStack[f].Includes[k][1])
    /\ [][/\ IsPrefix(DB, DB')
          /\ Len(TreeLog') \in { Len(TreeLog), Len(TreeLog) + 1 }
          /\ Len(TreeLog') = Len(TreeLog) + 1 =>
                /\ IncludeStack # << >>
                /\ back(TreeLog') = NodeOfFrame(back(IncludeStack))
                /\ Len(IncludeStack') = Len(IncludeStack) - 1
                /\ \A f \in 1..Len(IncludeStack') :
                       /\ IsPrefix(IncludeStack[f].Includes, IncludeStack'[f].Includes)
                       /\ IncludeStack'[f].HasIncludeChecks =
                              IncludeStack[f].HasIncludeChecks]_vars

\* main includes a, a includes b: the nodes were made b first, then a, main last
C15_Witness ==
    /\ pc = "done" /\ result.tag = "root"
    /\ Len(TreeLog) = 3
    /\ TreeLog[1].File = FileNodeOf("b") /\ TreeLog[1].Includes = << >>
    /\ TreeLog[2].File = FileNodeOf("a") /\ Len(TreeLog[2].Includes) = 1
    /\ TreeLog[2].Includes[1][1] = TreeLog[1]
    /\ TreeLog[3].File = FileNodeOf(MainFID) /\ Len(TreeLog[3].Includes) = 1
    /\ TreeLog[3].Includes[1][1] = TreeLog[2]
    /\ result.root.MainTree = TreeLog[3]


\* a node, and the nodes under it, carry the probes the front end evaluated
\* directly inside each file
RECURSIVE SameProbes(_, _)
SameProbes(node, t) ==
    /\ node.HasIncludeChecks = t.probes
    /\ Len(node.Includes) = Len(t.kids)
    /\ \A k \in 1..Len(t.kids) : SameProbes(node.Includes[k][1], t.kids[k][1])

(***************************************************************************)
(* C16: with no error recorded, handleHasIncludeCheck(result) appends      *)
(* result to the probe bits of the top frame and changes nothing else; so  *)
(* the probe bits of a node are the results of the probes evaluated while  *)
(* its file was the top frame, in order, without those of its includes.    *)
(***************************************************************************)
C16_ProbeAppendsToTop ==
    /\ [][(ProbeStep /\ ~hasValue(ErrorToReport)) =>
            /\ IncludeStack' =
                   [IncludeStack EXCEPT ![Len(IncludeStack)].HasIncludeChecks =
                       Append(@, back(back(ppStack').probes))]
            /\ UNCHANGED << PCHRef, SeenIncludeFiles, IncludedFiles,
                            PredefinesBufferRef, ObjectForFile, ErrorToReport, DB >>]_vars
    /\ [](op \in IncludeTreeOps /\ pc = "running" /\ ~hasValue(ErrorToReport)
            => \A i \in 1..Len(IncludeStack) :
                   /\ IncludeStack[i].HasIncludeChecks = ppStack[i].probes
                   /\ \A k \in 1..Len(IncludeStack[i].Includes) :
                          SameProbes(IncludeStack[i].Includes[k][1],
                                     ppStack[i].kids[k][1]))
    /\ [](op \in IncludeTreeOps /\ pc = "done" /\ result.tag = "root"
            => SameProbes(result.root.MainTree, ppTree(ppStack[1])))

\* main probed TRUE, then its include probed FALSE: each node has its own bit
C16_Witness ==
    /\ pc = "done" /\ result.tag = "root"
    /\ result.root.MainTree.HasIncludeChecks = << TRUE >>
    /\ Len(result.root.MainTree.Includes) = 1
    /\ result.root.MainTree.Includes[1][1].HasIncludeChecks = << FALSE >>


(***************************************************************************)
(* Properties of finalize's sweep of the precompiled header's files.       *)
(***************************************************************************)
\* the file has its seen bit
Seen(FE) == getUID(FE) < Len(SeenIncludeFiles) /\ SeenIncludeFiles[getUID(FE) + 1]

\* the manifest entries adding a file makes
EntriesOf(FE) ==
    IF FE \in Aliased
    THEN << EntryOf(FE, tryGetRealPathName(FE)), EntryOf(FE, getName(FE)) >>
    ELSE << EntryOf(FE, getName(FE)) >>

RECURSIVE EntriesOfAll(_)
EntriesOfAll(files) ==
    IF files = << >> THEN << >>
    ELSE EntriesOf(Head(files)) \o EntriesOfAll(Tail(files))

\* the entries finalize adds before the sweep: the no-sanitize files and, if
\* there is one under the sysroot, SDKSettings.json
EntriesBeforeSweep(ci) ==
    EntriesOfAll([i \in 1..Len(ci.NoSanitizeFiles) |->
                     getFile(ci.NoSanitizeFiles[i])[1]]) \o
    (IF ci.Sysroot # << >> /\ hasValue(getFile(ci.Sysroot \o << "SDKSettings.json" >>))
     THEN EntriesOf(getFile(ci.Sysroot \o << "SDKSettings.json" >>)[1])
     ELSE << >>)

(***************************************************************************)
(* C17: with a precompiled header and no error, finalize's sweep appends   *)
(* the entries of exactly the included files that have no seen bit, and of *)
(* none that has one; every file the front end has included then has an    *)
(* entry, and the root's PCH ref is the content of the PCH.  With no       *)
(* precompiled header there is no sweep and the root has no PCH ref.       *)
(***************************************************************************)
C17_SweepAddsNotSeen ==
    /\ [][(FinalizeStep /\ ~hasValue(ErrorToReport) /\ ~hasValue(ErrorToReport'))
            => LET ci == CI'[1]
                   Included == ppIncluded \cup PCHFiles
                   NotSeen == { FE \in Included : ~Seen(FE) }
               IN  IF ci.ImplicitPCHInclude # NoPCH
                   THEN /\ IncludedFiles' = IncludedFiles \o EntriesBeforeSweep(ci)
                                               \o EntriesOfAll(byUID(NotSeen))
                        /\ PCHRef' = Some(ContentRefOf("bytes_pch"))
                        /\ \A FE \in Included :
                               \E i \in 1..Len(IncludedFiles') :
                                   IncludedFiles'[i] = EntryOf(FE, getName(FE))
                   ELSE /\ IncludedFiles' = IncludedFiles \o EntriesBeforeSweep(ci)
                        /\ PCHRef' = None]_vars
    /\ [](op \in IncludeTreeOps /\ pc = "done" /\ result.tag = "root"
            => result.root.PCHRef = IF CI[1].ImplicitPCHInclude # NoPCH
                                    THEN Some(ContentRefOf("bytes_pch")) ELSE None)

\* "a" was entered and has its one entry; "q" and "p" came with the
\* precompiled header only and were swept in; the root has the PCH ref
C17_Witness ==
    /\ pc = "done" /\ result.tag = "root"
    /\ hasValue(result.root.PCHRef)
    /\ "a" \in ppIncluded /\ Seen("a") /\ ~Seen("q")
    /\ Cardinality({ i \in 1..Len(IncludedFiles) :
                       IncludedFiles[i] = EntryOf("a", getName("a")) }) = 1
    /\ \E i \in 1..Len(IncludedFiles) : IncludedFiles[i] = EntryOf("q", getName("q"))
    /\ \E i \in 1..Len(IncludedFiles) : IncludedFiles[i] = EntryOf("p", getName("p"))


(***************************************************************************)
(* C18: the flat file list of the DependencyRecord is the sequence of      *)
(* paths reported by file-dependency events, in the order reported, a path *)
(* reported twice being there twice, whatever AlreadySeen, the module      *)
(* records and the command line are.                                       *)
(***************************************************************************)
C18_FileDepsAsReported ==
    ReturnedDeps => result.FDR.FullDeps.FileDeps = reported

\* a.h was reported twice, with a module stored and already seen
C18_Witness ==
    /\ ReturnedDeps
    /\ reported = << "a.h", "a.h" >>
    /\ result.FDR.FullDeps.FileDeps = << "a.h", "a.h" >>
    /\ ClangModuleDeps # << >>
    /\ AlreadySeen # {}


(***************************************************************************)
(* Properties of the predefines buffer.                                    *)
(***************************************************************************)
\* how many objects of a kind the consumer has had the store make
Made(kind) == Cardinality({ i \in 1..Len(DB) : DB[i].kind = kind })

BuiltinNodes ==
    { i \in 1..Len(DB) : DB[i].kind = "IncludeFile"
                           /\ DB[i].obj.Filename = << "<built-in>" >> }

(***************************************************************************)
(* C19: however often the predefines buffer is entered, its content is     *)
(* stored and its FileNode made at most once in a scan; every enter of it  *)
(* resolves to that one ref; and it adds no manifest entry and no seen     *)
(* bit.                                                                    *)
(***************************************************************************)
C19_PredefinesOnce ==
    /\ [](Made("blob") <= 1 /\ Cardinality(BuiltinNodes) <= 1)
    /\ [](\A i \in 1..Len(IncludedFiles) :
              IncludedFiles[i].File.Filename # << "<built-in>" >>)
    /\ [][(EnterStep /\ back(ppStack').fid = PredefinesFID /\ ~hasValue(ErrorToReport))
            => /\ UNCHANGED << IncludedFiles, SeenIncludeFiles, ObjectForFile >>
               /\ hasValue(PredefinesBufferRef)
                      => UNCHANGED << PredefinesBufferRef, DB >>
               /\ ~hasValue(ErrorToReport')
                      => /\ hasValue(PredefinesBufferRef')
                         /\ back(IncludeStack').File = PredefinesBufferRef'[1]
                         /\ PredefinesBufferRef'[1] = FileNodeOf(PredefinesFID)]_vars

\* the predefines buffer was entered and left twice: one blob, one FileNode,
\* both nodes on that ref, and main's entry alone in the manifest
C19_Witness ==
    /\ pc = "done" /\ result.tag = "root"
    /\ Len(result.root.MainTree.Includes) = 2
    /\ \A k \in 1..2 :
           result.root.MainTree.Includes[k][1].File = FileNodeOf(PredefinesFID)
    /\ Made("blob") = 1 /\ Cardinality(BuiltinNodes) = 1
    /\ IncludedFiles = << EntryOf(MainFID, getName(MainFID)) >>


(***************************************************************************)
(* C20: getFullDependencies leaves the consumer's context hash, file list, *)
(* prebuilt-module list and module records as they are, so a second call   *)
(* with the same command line, AlreadySeen and callback returns an equal   *)
(* DependencyRecord and equal discovered modules.                          *)
(***************************************************************************)
C20_FinalizeKeepsAggregator ==
    /\ [][(op = "getFullDependencies" /\ pc = "running" /\ pc' = "done")
            => UNCHANGED << ContextHash, Dependencies, PrebuiltModuleDeps,
                            ClangModuleDeps >>]_vars
    /\ [](ReturnedDeps =>
            FullDependencyConsumer_getFullDependencies(
                Deps, AlreadySeen, CommandLine,
                result.FDR.FullDeps.CASFileSystemRootID).FDR = result.FDR)

\* the call returned a record with a prebuilt module and a discovered module,
\* and the consumer still holds both
C20_Witness ==
    /\ ReturnedDeps
    /\ Len(result.FDR.FullDeps.PrebuiltModuleDeps) = 1
    /\ PrebuiltModuleDeps = result.FDR.FullDeps.PrebuiltModuleDeps
    /\ Len(result.FDR.DiscoveredModules) >= 1
    /\ ClangModuleDeps # << >>
    /\ Dependencies # << >>

====
